---- MODULE Spec2Model ----
(***************************************************************************)
(* Webgrab: the batch-scoped archive store of src/background.js.           *)
(*                                                                         *)
(* Two IndexedDB object stores, `batches` (keyPath id) and `pages`         *)
(* (keyPath url, index on batchId), and the commands the service worker's  *)
(* onMessage listener serves: createBatch, getBatches, savePage,           *)
(* exportBatch, deleteBatch.  Every command is a chain of IndexedDB        *)
(* transactions; one step of the model is one transaction (or, for the     *)
(* delete cascade, one request inside the transaction).  A readwrite       *)
(* transaction is isolated: its requests act on the transaction's own view *)
(* and reach the store when it commits.                                    *)
(***************************************************************************)
EXTENDS Integers, Sequences, FiniteSets, Bags, TLC

\* ------------------------------------------------------------------ bounds
MaxInFlight == 2      \* commands that may be in flight at the same time
MaxCmds == 3          \* commands issued in one run with overlapping commands
MaxCmdsSeq == 4       \* commands issued in one run, one at a time
MaxBatches == 2       \* batch ids ever generated
MaxUrls == 2          \* distinct page URLs
MaxListings == 2      \* elements of a scraped results page
MaxActs == 3          \* clicks and selections made in one popup

Procs == 1..MaxInFlight
Urls == 1..MaxUrls
Htmls == {"h1", "h2"}
Names == {"", " ", "Foo", "foo", "bar"}
MaxSafeNameLen == 50  \* substring(0, 50) of the sanitised batch name
LongName == [i \in 1..(MaxSafeNameLen + 1) |-> "a"]
ExportNames == {<<>>, <<"v", "1", ".", "0", " ", "F", "-", "_">>, LongName}
StrayId == MaxBatches + 1   \* a batch id that no createBatch generates

VARIABLES
    batches,    \* object store 'batches': id -> batch record
    pages,      \* object store 'pages': url -> page record
    ops,        \* the commands in flight, one slot per message being handled
    tx,         \* the running deleteBatch transaction and its view of the stores
    nextId,     \* ids handed out so far (crypto.randomUUID never repeats)
    clock,      \* the latest timestamp taken with new Date()
    issued,     \* commands received so far
    fresh,      \* history: the batch created last and the URLs saved into it since,
                \* while no other command has changed the store
    content,    \* the content script: the page it runs in and the records it extracted
    popup       \* the popup window: its script's variables, its controls and the
                \* messages it has sent whose callback has not run

vars == <<batches, pages, ops, tx, nextId, clock, issued, fresh, content, popup>>

\* ------------------------------------------------------------ object stores
EmptyStore == [k \in {} |-> 0]

\* IDBObjectStore.put: insert or overwrite the record under its key.
StorePut(store, key, rec) ==
    [k \in (DOMAIN store) \cup {key} |-> IF k = key THEN rec ELSE store[k]]

\* IDBObjectStore.delete: remove the record under the key, if any.
StoreDelete(store, key) ==
    [k \in (DOMAIN store) \ {key} |-> store[k]]

\* index('batchIdIndex') restricted to IDBKeyRange.only(batchId): primary keys.
PagesOfBatch(pgs, batchId) ==
    {u \in DOMAIN pgs : pgs[u].batchId = batchId}

\* ------------------------------------------------------------------- names
\* String.prototype.toLowerCase on the batch names of the model.
ToLowerCase(name) ==
    IF name = "Foo" THEN "foo" ELSE name

\* Position of a lower-cased name under localeCompare: "" < " " < "bar" < "foo".
LocaleRank(lname) ==
    CASE lname = "" -> 0
      [] lname = " " -> 1
      [] lname = "bar" -> 2
      [] lname = "foo" -> 3
      [] OTHER -> 4

\* --------------------------------------------------------------------- URLs
\* new URL(request.url).hostname for the URLs of the model.
Hostname(url) ==
    IF url % 2 = 1 THEN "a.example" ELSE "b.example"

\* new URL(request.url).search for the URLs of the model.
Search(url) ==
    IF url > 1 THEN "?q=1" ELSE ""

\* ---------------------------------------------------------------- listing
\* As SortsBefore, with the order getAll returns the records in: by key.
SortsBeforeInKeyOrder(bs, x, y) ==
    x <= y

\* The comparator of getAllBatchesFromDb's sort: lower-cased names by
\* localeCompare; Array.prototype.sort is stable, so ties keep getAll's key order.
SortsBefore(bs, x, y) ==
    LET rx == LocaleRank(ToLowerCase(bs[x].name))
        ry == LocaleRank(ToLowerCase(bs[y].name))
    IN  rx < ry \/ (rx = ry /\ x <= y)

RECURSIVE SortedIds(_, _)
SortedIds(bs, ids) ==
    IF ids = {} THEN <<>>
    ELSE LET first == CHOOSE x \in ids : \A y \in ids : SortsBefore(bs, x, y)
         IN  <<first>> \o SortedIds(bs, ids \ {first})

\* getAllBatchesFromDb: store.getAll() sorted by name, case-insensitively.
getAllBatchesFromDb(bs) ==
    LET order == SortedIds(bs, DOMAIN bs)
    IN  [i \in 1..Len(order) |-> bs[order[i]]]

\* As getPagesForBatch, reading the whole pages store.
getPagesOfEveryBatch(pgs, batchId) ==
    [i \in 1..Cardinality(DOMAIN pgs) |->
        pgs[CHOOSE u \in DOMAIN pgs : Cardinality({v \in DOMAIN pgs : v <= u}) = i]]

\* The pages index.getAll(IDBKeyRange.only(batchId)) returns, in primary-key order.
RECURSIVE PagesInKeyOrder(_, _)
PagesInKeyOrder(pgs, urls) ==
    IF urls = {} THEN <<>>
    ELSE LET first == CHOOSE u \in urls : \A v \in urls : u <= v
         IN  <<pgs[first]>> \o PagesInKeyOrder(pgs, urls \ {first})

getPagesForBatch(pgs, batchId) ==
    PagesInKeyOrder(pgs, PagesOfBatch(pgs, batchId))

\* ---------------------------------------------------------------- commands
\* One slot of the listener: the request's fields, where its handler stands (pc),
\* the locals its continuations carry, and the response handed to sendResponse.
IdleOp ==
    [kind |-> "idle", pc |-> "idle", name |-> "", batchId |-> 0, url |-> 0,
     html |-> "", at |-> 0, pageExists |-> FALSE, count |-> 0,
     status |-> "none", error |-> "", result |-> <<>>,
     cnt0 |-> -1, home0 |-> 0,
     batchName |-> <<>>, filename |-> [name |-> <<>>, id |-> 0, timestamp |-> 0],
     blob |-> <<>>]

NoTx ==
    [active |-> FALSE, owner |-> 0, batchId |-> 0,
     batches |-> EmptyStore, pages |-> EmptyStore,
     batches0 |-> EmptyStore, pages0 |-> EmptyStore]

NoFresh ==
    [batchId |-> 0, urls |-> {}]

Free(p) == ops[p].pc \in {"idle", "done"}
InFlight(p) == ~Free(p)
AtRest == \A p \in Procs : Free(p)

\* The response of a handler: sendResponse is called with it and the slot is done.
Respond(op, status) ==
    [op EXCEPT !.pc = "done", !.status = status]

\* An error response with its message.
RespondError(op, error) ==
    [Respond(op, "error") EXCEPT !.error = error]

\* A promise that is never settled: no sendResponse call follows.
Hang(op) ==
    [op EXCEPT !.pc = "hung"]

\* No page scraped and no popup open.
NoContent ==
    [document |-> <<>>, directory |-> "", records |-> <<>>, scraped |-> FALSE]

NoPopup ==
    [script |-> "none"]

\* A message sent by something other than the modelled popup and content script.
Apart ==
    UNCHANGED <<content, popup>>

Init ==
    /\ batches = EmptyStore
    /\ pages = EmptyStore
    /\ ops = [p \in Procs |-> IdleOp]
    /\ tx = NoTx
    /\ nextId = 0
    /\ clock = 0
    /\ issued = 0
    /\ fresh = NoFresh
    /\ content = NoContent
    /\ popup = NoPopup

\* A message reaches the listener: the slot takes the request.
Receive(p, op) ==
    /\ issued' = issued + 1
    /\ clock' = IF op.at > clock THEN op.at ELSE clock
    /\ ops' = [ops EXCEPT ![p] = op]

\* ------------------------------------------------------------- createBatch
\* As NewBatch, with lastSavedAt stamped when the batch is created.
NewBatchStampedAtCreation(id, name, now) ==
    [id |-> id, name |-> name, createdAt |-> now, lastSavedAt |-> now + 1, pageCount |-> 0]

\* The record createBatchInDb builds for store.add; lastSavedAt 0 is null.
NewBatch(id, name, now) ==
    [id |-> id, name |-> name, createdAt |-> now, lastSavedAt |-> 0, pageCount |-> 0]

\* As NameTaken, comparing the names as they are written.
NameTakenExactly(bs, name) ==
    \E i \in DOMAIN getAllBatchesFromDb(bs) :
        getAllBatchesFromDb(bs)[i].name = name

\* existingBatches.some(batch => batch.name.toLowerCase() === name.toLowerCase())
NameTaken(bs, name) ==
    \E i \in DOMAIN getAllBatchesFromDb(bs) :
        ToLowerCase(getAllBatchesFromDb(bs)[i].name) = ToLowerCase(name)

\* case 'createBatch': createBatchInDb rejects an empty name at once, and otherwise
\* starts the read-only getAll of the uniqueness check.
IssueCreate(p, name) ==
    /\ nextId + Cardinality({q \in Procs : ops[q].kind = "create" /\ ops[q].pc = "check"})
          < MaxBatches
    /\ Receive(p, IF name = ""
                  THEN RespondError([IdleOp EXCEPT !.kind = "create"],
                                    "Batch name cannot be empty.")
                  ELSE [IdleOp EXCEPT !.kind = "create", !.pc = "check", !.name = name])
    /\ fresh' = NoFresh
    /\ UNCHANGED <<batches, pages, tx, nextId>>

\* getAll answered: a name taken ends the command; otherwise the readwrite
\* transaction is opened and store.add(newBatch) requested with a fresh id.
CreateCheck(p) ==
    /\ ops[p].kind = "create" /\ ops[p].pc = "check"
    /\ IF NameTaken(batches, ops[p].name)
       THEN /\ ops' = [ops EXCEPT ![p] = RespondError(@, "Batch name already exists.")]
            /\ UNCHANGED nextId
       ELSE /\ nextId' = nextId + 1
            /\ ops' = [ops EXCEPT ![p] = [@ EXCEPT !.pc = "insert",
                                                   !.batchId = nextId + 1,
                                                   !.at = clock]]
    /\ UNCHANGED <<batches, pages, tx, clock, issued, fresh, content, popup>>

\* request.onsuccess resolves { success: true, newBatch } and the transaction commits.
CreateInsert(p) ==
    /\ ops[p].kind = "create" /\ ops[p].pc = "insert"
    /\ ~tx.active
    /\ batches' = StorePut(batches, ops[p].batchId,
                           NewBatch(ops[p].batchId, ops[p].name, ops[p].at))
    /\ ops' = [ops EXCEPT ![p] = Respond(@, "success")]
    /\ fresh' = [batchId |-> ops[p].batchId, urls |-> {}]
    /\ UNCHANGED <<pages, tx, nextId, clock, issued, content, popup>>

\* request.onsuccess has resolved success, then the transaction fails to commit:
\* nothing listens for it, the response stays success and no batch is stored.
CreateCommitFails(p) ==
    /\ ops[p].kind = "create" /\ ops[p].pc = "insert"
    /\ ~tx.active
    /\ ops' = [ops EXCEPT ![p] = Respond(@, "success")]
    /\ UNCHANGED <<batches, pages, tx, nextId, clock, issued, fresh, content, popup>>

\* request.onerror rejects; the listener's catch answers with an error.
CreateAddError(p) ==
    /\ ops[p].kind = "create" /\ ops[p].pc = "insert"
    /\ ~tx.active
    /\ ops' = [ops EXCEPT ![p] = Respond(@, "error")]
    /\ UNCHANGED <<batches, pages, tx, nextId, clock, issued, fresh, content, popup>>

\* ---------------------------------------------------------------- savePage
\* pageData as the savePage case builds it, stored as the page record.
PageRecord(op) ==
    [url |-> op.url, batchId |-> op.batchId, site |-> Hostname(op.url),
     params |-> Search(op.url), html_content |-> op.html, retrieved_at |-> op.at]

\* As UpdatedBatch, with the count grown on every save.
UpdatedBatchCountsEverySave(batch, pageExists, at) ==
    [batch EXCEPT !.pageCount = @ + 1, !.lastSavedAt = at]

\* As UpdatedBatch, with lastSavedAt set only on the branch that counts a new page.
UpdatedBatchStampsNewPagesOnly(batch, pageExists, at) ==
    IF pageExists THEN batch
    ELSE [batch EXCEPT !.pageCount = @ + 1, !.lastSavedAt = at]

\* As UpdatedBatch, with the count taken back when the page was already stored.
UpdatedBatchUncountsResave(batch, pageExists, at) ==
    [batch EXCEPT !.pageCount = IF pageExists THEN @ - 1 ELSE @ + 1,
                  !.lastSavedAt = at]

\* batchRequest.onsuccess: the count grows only when the exists-check found no
\* page; lastSavedAt is set on either branch.
UpdatedBatch(batch, pageExists, at) ==
    [batch EXCEPT !.pageCount = IF pageExists THEN @ ELSE @ + 1,
                  !.lastSavedAt = at]

\* As BatchesAfterSave, with the count taken from the batch record as it was
\* when the command started instead of the one read inside the transaction.
BatchesAfterSaveFromStaleRead(bs, op) ==
    IF op.batchId \in DOMAIN bs
    THEN StorePut(bs, op.batchId,
                  [bs[op.batchId] EXCEPT !.pageCount = IF op.pageExists THEN @ ELSE op.cnt0 + 1,
                                         !.lastSavedAt = op.at])
    ELSE bs

\* As BatchesAfterSave, with a batch record written even when get found none.
BatchesAfterSaveUpserts(bs, op) ==
    StorePut(bs, op.batchId,
             UpdatedBatch(IF op.batchId \in DOMAIN bs THEN bs[op.batchId]
                          ELSE NewBatch(op.batchId, "Foo", 0),
                          op.pageExists, op.at))

\* The batches store after the readwrite transaction's batchStore.get / put:
\* a batch that is not found is only logged.
BatchesAfterSave(bs, op) ==
    IF op.batchId \in DOMAIN bs
    THEN StorePut(bs, op.batchId, UpdatedBatch(bs[op.batchId], op.pageExists, op.at))
    ELSE bs

\* As PagesAfterSave, with a stored page left under the batch it was saved to first.
PagesAfterSaveKeepsBatch(pgs, op) ==
    StorePut(pgs, op.url,
             IF op.url \in DOMAIN pgs
             THEN [PageRecord(op) EXCEPT !.batchId = pgs[op.url].batchId]
             ELSE PageRecord(op))

\* As PagesAfterSave, on a store with generated keys instead of keyPath 'url':
\* every put adds a record.
PagesAfterSaveAddsRecord(pgs, op) ==
    StorePut(pgs, Cardinality(DOMAIN pgs) + 1, PageRecord(op))

\* The pages store after the readwrite transaction's pageStore.put(pageRecord).
PagesAfterSave(pgs, op) ==
    StorePut(pgs, op.url, PageRecord(op))

\* As IssueSave, with the page put before the request is validated.
IssueSaveWritesBeforeValidating(p, b, u, h) ==
    /\ Receive(p,
         LET req == [IdleOp EXCEPT !.kind = "save"]
         IN  IF b = 0 \/ u = 0 \/ h = ""
             THEN Respond(req, "error")
             ELSE [req EXCEPT !.pc = "check", !.batchId = b, !.url = u, !.html = h,
                              !.at = clock + 1,
                              !.cnt0 = IF b \in DOMAIN batches
                                       THEN batches[b].pageCount ELSE -1,
                              !.home0 = IF u \in DOMAIN pages
                                        THEN pages[u].batchId ELSE 0])
    /\ pages' = IF b # 0 /\ u # 0
                THEN StorePut(pages, u,
                              PageRecord([IdleOp EXCEPT !.batchId = b, !.url = u,
                                                        !.html = h, !.at = clock + 1]))
                ELSE pages
    /\ UNCHANGED <<batches, tx, nextId, fresh>>

\* case 'savePage': batchId 0 / url 0 stand for a missing field, html "" for an
\* injection that returned no result.  A valid request takes its timestamp and
\* starts the read-only getKey of the exists-check.
IssueSave(p, b, u, h) ==
    /\ Receive(p,
         LET req == [IdleOp EXCEPT !.kind = "save"]
         IN  IF b = 0 \/ u = 0 \/ h = ""
             THEN Respond(req, "error")
             ELSE [req EXCEPT !.pc = "check", !.batchId = b, !.url = u, !.html = h,
                              !.at = clock + 1,
                              !.cnt0 = IF b \in DOMAIN batches
                                       THEN batches[b].pageCount ELSE -1,
                              !.home0 = IF u \in DOMAIN pages
                                        THEN pages[u].batchId ELSE 0])
    /\ UNCHANGED <<batches, pages, tx, nextId, fresh>>

\* getRequest.onsuccess: pageExists is fixed here, before the readwrite
\* transaction exists.
SaveCheck(p) ==
    /\ ops[p].kind = "save" /\ ops[p].pc = "check"
    /\ ops' = [ops EXCEPT ![p] = [@ EXCEPT !.pc = "write",
                                           !.pageExists = ops[p].url \in DOMAIN pages]]
    /\ UNCHANGED <<batches, pages, tx, nextId, clock, issued, fresh, content, popup>>

\* getRequest.onerror: the awaited promise rejects into addPageToDb's catch.
SaveCheckError(p) ==
    /\ ops[p].kind = "save" /\ ops[p].pc = "check"
    /\ ops' = [ops EXCEPT ![p] = Respond(@, "error")]
    /\ UNCHANGED <<batches, pages, tx, nextId, clock, issued, fresh, content, popup>>

\* The readwrite transaction over pages and batches runs and completes:
\* put(pageRecord), get(batchId), put(batch); oncomplete resolves success.
SaveWrite(p) ==
    /\ ops[p].kind = "save" /\ ops[p].pc = "write"
    /\ ~tx.active
    /\ pages' = PagesAfterSave(pages, ops[p])
    /\ batches' = BatchesAfterSave(batches, ops[p])
    /\ ops' = [ops EXCEPT ![p] = Respond(@, "success")]
    /\ fresh' = IF ops[p].batchId = fresh.batchId
                THEN [fresh EXCEPT !.urls = @ \cup {ops[p].url}]
                ELSE NoFresh
    /\ UNCHANGED <<tx, nextId, clock, issued, content, popup>>

\* A request of the transaction fails: transaction.onerror rejects, the
\* listener's catch answers with an error, and the transaction is rolled back.
SaveTxError(p) ==
    /\ ops[p].kind = "save" /\ ops[p].pc = "write"
    /\ ~tx.active
    /\ ops' = [ops EXCEPT ![p] = Respond(@, "error")]
    /\ UNCHANGED <<batches, pages, tx, nextId, clock, issued, fresh, content, popup>>

\* The transaction aborts at commit with no request error: only an abort event
\* fires, addPageToDb listens for none, and its promise stays pending.
SaveTxAbort(p) ==
    /\ ops[p].kind = "save" /\ ops[p].pc = "write"
    /\ ~tx.active
    /\ ops' = [ops EXCEPT ![p] = Hang(@)]
    /\ UNCHANGED <<batches, pages, tx, nextId, clock, issued, fresh, content, popup>>

\* -------------------------------------------------------------- deleteBatch
\* As StoreDuringTx, with every request reaching the store as it is made.
StoreDuringTxWrittenThrough(committed, view) ==
    view

\* What the object store holds while a request of the open readwrite transaction
\* has been applied to the transaction's view: deleteBatchAndPages runs the whole
\* cascade in one transaction over both stores, so nothing before the commit.
StoreDuringTx(committed, view) ==
    committed

\* As BatchesAfterDelete, with the batch record left in place.
BatchesAfterDeleteKeepsBatch(bs, batchId) ==
    bs

\* batchStore.delete(batchId), the first request of the cascade.
BatchesAfterDelete(bs, batchId) ==
    StoreDelete(bs, batchId)

\* cursor.primaryKey of pageIndex.openCursor(IDBKeyRange.only(batchId)): the
\* cursor stands on the first remaining page of the batch.
CursorKey(pgs, batchId) ==
    CHOOSE u \in PagesOfBatch(pgs, batchId) : \A v \in PagesOfBatch(pgs, batchId) : u <= v

\* As DeleteDone, with no pages counted in the result.
DeleteDoneCountDropped(op) ==
    [Respond(op, "success") EXCEPT !.count = 0]

\* The result deleteBatchAndPages resolves with from transaction.oncomplete.
DeleteDone(op) ==
    Respond(op, "success")

\* As DeleteFailed, with the failure answered as a success.
DeleteFailedAnsweredSuccess(op) ==
    Respond(op, "success")

\* What the listener answers when transaction.onerror has rejected.
DeleteFailed(op) ==
    Respond(op, "error")

\* case 'deleteBatch': a missing batchId (0) is answered with an error; otherwise
\* deleteBatchAndPages asks for its readwrite transaction over both stores.
IssueDelete(p, b) ==
    /\ Receive(p,
         LET req == [IdleOp EXCEPT !.kind = "delete"]
         IN  IF b = 0 THEN Respond(req, "error")
             ELSE [req EXCEPT !.pc = "queued", !.batchId = b])
    /\ fresh' = NoFresh
    /\ UNCHANGED <<batches, pages, tx, nextId>>

\* The transaction starts: batchStore.delete(batchId) is applied and the cursor
\* over the batch's pages is opened.
DeleteBegin(p) ==
    /\ ops[p].kind = "delete" /\ ops[p].pc = "queued"
    /\ ~tx.active
    /\ tx' = [active |-> TRUE, owner |-> p, batchId |-> ops[p].batchId,
              batches |-> BatchesAfterDelete(batches, ops[p].batchId), pages |-> pages,
              batches0 |-> batches, pages0 |-> pages]
    /\ batches' = StoreDuringTx(batches, BatchesAfterDelete(batches, ops[p].batchId))
    /\ pages' = StoreDuringTx(pages, pages)
    /\ ops' = [ops EXCEPT ![p] = [@ EXCEPT !.pc = "cascade", !.count = 0]]
    /\ UNCHANGED <<nextId, clock, issued, fresh, content, popup>>

\* pageCursorRequest.onsuccess with a cursor: delete the page it stands on,
\* count it, continue.
DeleteCursor(p) ==
    /\ ops[p].kind = "delete" /\ ops[p].pc = "cascade"
    /\ tx.active /\ tx.owner = p
    /\ PagesOfBatch(tx.pages, tx.batchId) # {}
    /\ LET view == StoreDelete(tx.pages, CursorKey(tx.pages, tx.batchId))
       IN  /\ tx' = [tx EXCEPT !.pages = view]
           /\ pages' = StoreDuringTx(pages, view)
    /\ batches' = StoreDuringTx(batches, tx.batches)
    /\ ops' = [ops EXCEPT ![p] = [@ EXCEPT !.count = @ + 1]]
    /\ UNCHANGED <<nextId, clock, issued, fresh, content, popup>>

\* The cursor is exhausted and the transaction commits: oncomplete resolves
\* { success: true, pagesDeletedCount }.
DeleteCommit(p) ==
    /\ ops[p].kind = "delete" /\ ops[p].pc = "cascade"
    /\ tx.active /\ tx.owner = p
    /\ PagesOfBatch(tx.pages, tx.batchId) = {}
    /\ batches' = tx.batches
    /\ pages' = tx.pages
    /\ tx' = NoTx
    /\ ops' = [ops EXCEPT ![p] = DeleteDone(@)]
    /\ UNCHANGED <<nextId, clock, issued, fresh, content, popup>>

\* A request fails part-way through the cascade: the error event reaches
\* transaction.onerror, which rejects, and the transaction is aborted.
DeleteTxError(p) ==
    /\ ops[p].kind = "delete" /\ ops[p].pc = "cascade"
    /\ tx.active /\ tx.owner = p
    /\ tx' = NoTx
    /\ ops' = [ops EXCEPT ![p] = DeleteFailed(@)]
    /\ UNCHANGED <<batches, pages, nextId, clock, issued, fresh, content, popup>>

\* Every request succeeded and the commit itself fails: only an abort event
\* fires, deleteBatchAndPages listens for none, and its promise stays pending.
DeleteTxAbort(p) ==
    /\ ops[p].kind = "delete" /\ ops[p].pc = "cascade"
    /\ tx.active /\ tx.owner = p
    /\ PagesOfBatch(tx.pages, tx.batchId) = {}
    /\ tx' = NoTx
    /\ ops' = [ops EXCEPT ![p] = Hang(@)]
    /\ UNCHANGED <<batches, pages, nextId, clock, issued, fresh, content, popup>>

\* --------------------------------------------------------------- getBatches
\* case 'getBatches': the read-only getAll is requested.
IssueList(p) ==
    /\ Receive(p, [IdleOp EXCEPT !.kind = "list", !.pc = "read"])
    /\ UNCHANGED <<batches, pages, tx, nextId, fresh>>

\* request.onsuccess: { success: true, batches: sortedBatches }.
ListRead(p) ==
    /\ ops[p].kind = "list" /\ ops[p].pc = "read"
    /\ ops' = [ops EXCEPT ![p] =
                 Respond([@ EXCEPT !.result = getAllBatchesFromDb(batches)], "success")]
    /\ UNCHANGED <<batches, pages, tx, nextId, clock, issued, fresh, content, popup>>

\* request.onerror: the returned promise rejects past getAllBatchesFromDb's try
\* into the listener's catch.
ListReadError(p) ==
    /\ ops[p].kind = "list" /\ ops[p].pc = "read"
    /\ ops' = [ops EXCEPT ![p] = Respond(@, "error")]
    /\ UNCHANGED <<batches, pages, tx, nextId, clock, issued, fresh, content, popup>>

\* currentDb.transaction (or openDb) throws inside getAllBatchesFromDb's try:
\* its catch logs and returns [].
ListTransactionThrows(p) ==
    /\ ops[p].kind = "list" /\ ops[p].pc = "read"
    /\ ops' = [ops EXCEPT ![p] = [@ EXCEPT !.pc = "caught", !.result = <<>>]]
    /\ UNCHANGED <<batches, pages, tx, nextId, clock, issued, fresh, content, popup>>

\* The listener answers { success: true, batches } with what the catch returned.
ListCaught(p) ==
    /\ ops[p].kind = "list" /\ ops[p].pc = "caught"
    /\ ops' = [ops EXCEPT ![p] = Respond(@, "success")]
    /\ UNCHANGED <<batches, pages, tx, nextId, clock, issued, fresh, content, popup>>

\* -------------------------------------------------------------- exportBatch
\* The characters /[^a-z0-9_-]/gi leaves in place.
KeptChars ==
    {"a", "b", "c", "d", "e", "f", "g", "h", "i", "j", "k", "l", "m",
     "n", "o", "p", "q", "r", "s", "t", "u", "v", "w", "x", "y", "z",
     "A", "B", "C", "D", "E", "F", "G", "H", "I", "J", "K", "L", "M",
     "N", "O", "P", "Q", "R", "S", "T", "U", "V", "W", "X", "Y", "Z",
     "0", "1", "2", "3", "4", "5", "6", "7", "8", "9", "_", "-"}

\* request.batchName.replace(/[^a-z0-9_-]/gi, '_').substring(0, 50)
SafeBatchName(batchName) ==
    LET len == IF Len(batchName) < MaxSafeNameLen THEN Len(batchName) ELSE MaxSafeNameLen
    IN  [i \in 1..len |-> IF batchName[i] \in KeptChars THEN batchName[i] ELSE "_"]

\* The text of a string value as runs of characters: the document "h2" has a
\* line break in it, every other string of the model is one run without any.
Text(str) ==
    IF str = "h2" THEN <<"<p>", "\n", "</p>">> ELSE <<str>>

\* JSON.stringify's escaping inside a string: a line break becomes \n.
EscapeJson(runs) ==
    [i \in DOMAIN runs |-> IF runs[i] = "\n" THEN "\\n" ELSE runs[i]]

\* The fields of a page record, in the order pageRecord was built.
PageFields ==
    <<"url", "batchId", "site", "params", "html_content", "retrieved_at">>

\* The fields whose values are numbers in the model.
NumberFields ==
    {"url", "batchId", "retrieved_at"}

\* A value as JSON tokens: a number as its digits, a string between quotes.
JsonValue(field, value) ==
    IF field \in NumberFields THEN <<ToString(value)>>
    ELSE <<"\"">> \o EscapeJson(Text(value)) \o <<"\"">>

RECURSIVE JsonMembers(_, _)
JsonMembers(page, fields) ==
    IF fields = <<>> THEN <<>>
    ELSE <<Head(fields)>> \o JsonValue(Head(fields), page[Head(fields)])
            \o JsonMembers(page, Tail(fields))

\* JSON.stringify(page): the record's own fields, each key followed by its value.
JsonStringify(page) ==
    JsonMembers(page, SelectSeq(PageFields, LAMBDA f : f \in DOMAIN page))

\* pages.map(page => JSON.stringify(page)).join('\n')
RECURSIVE JsonlData(_)
JsonlData(pgs) ==
    IF pgs = <<>> THEN <<>>
    ELSE IF Len(pgs) = 1 THEN JsonStringify(pgs[1])
    ELSE JsonStringify(pgs[1]) \o <<"\n">> \o JsonlData(Tail(pgs))

\* `webgrab_batch_${safeBatchName}_${batchId.substring(0, 8)}_${timestamp}.jsonl`:
\* the three parts that vary.
Filename(batchName, batchId, now) ==
    [name |-> SafeBatchName(batchName), id |-> batchId, timestamp |-> now]

\* case 'exportBatch': a missing batchId (0) or batchName ("") is answered with an
\* error; otherwise getPagesForBatch requests the index's getAll.
IssueExport(p, b, name) ==
    /\ Receive(p,
         LET req == [IdleOp EXCEPT !.kind = "export"]
         IN  IF b = 0 \/ name = <<>>
             THEN Respond(req, "error")
             ELSE [req EXCEPT !.pc = "read", !.batchId = b, !.batchName = name])
    /\ UNCHANGED <<batches, pages, tx, nextId, fresh>>

\* request.onsuccess: the pages (an empty array is not falsy) are joined into the
\* JSON Lines blob and chrome.downloads.download is called.
ExportRead(p) ==
    /\ ops[p].kind = "export" /\ ops[p].pc = "read"
    /\ ops' = [ops EXCEPT ![p] = [@ EXCEPT !.pc = "download",
                                           !.result = getPagesForBatch(pages, ops[p].batchId),
                                           !.blob = JsonlData(getPagesForBatch(pages,
                                                                               ops[p].batchId)),
                                           !.filename = Filename(ops[p].batchName,
                                                                 ops[p].batchId, clock)]]
    /\ UNCHANGED <<batches, pages, tx, nextId, clock, issued, fresh, content, popup>>

\* dbInstance.transaction (or openDb) throws inside getPagesForBatch's try: its
\* catch logs and returns [].
ExportTransactionThrows(p) ==
    /\ ops[p].kind = "export" /\ ops[p].pc = "read"
    /\ ops' = [ops EXCEPT ![p] = [@ EXCEPT !.pc = "caught", !.result = <<>>]]
    /\ UNCHANGED <<batches, pages, tx, nextId, clock, issued, fresh, content, popup>>

\* The listener goes on with what the catch returned: `!pages` is false for [],
\* the blob is built and chrome.downloads.download is called.
ExportCaught(p) ==
    /\ ops[p].kind = "export" /\ ops[p].pc = "caught"
    /\ ops' = [ops EXCEPT ![p] = [@ EXCEPT !.pc = "download",
                                           !.blob = JsonlData(ops[p].result),
                                           !.filename = Filename(ops[p].batchName,
                                                                 ops[p].batchId, clock)]]
    /\ UNCHANGED <<batches, pages, tx, nextId, clock, issued, fresh, content, popup>>

\* request.onerror: the rejection reaches the listener's catch.
ExportReadError(p) ==
    /\ ops[p].kind = "export" /\ ops[p].pc = "read"
    /\ ops' = [ops EXCEPT ![p] = Respond(@, "error")]
    /\ UNCHANGED <<batches, pages, tx, nextId, clock, issued, fresh, content, popup>>

\* The download callback without chrome.runtime.lastError: { success: true }.
ExportDownloadStarted(p) ==
    /\ ops[p].kind = "export" /\ ops[p].pc = "download"
    /\ ops' = [ops EXCEPT ![p] = Respond(@, "success")]
    /\ UNCHANGED <<batches, pages, tx, nextId, clock, issued, fresh, content, popup>>

\* As ExportDownloadFailed, with the pages that were to be exported removed.
ExportDownloadFailedDropsPages(p) ==
    /\ ops[p].kind = "export" /\ ops[p].pc = "download"
    /\ ops' = [ops EXCEPT ![p] = Respond(@, "error")]
    /\ pages' = [u \in DOMAIN pages \ PagesOfBatch(pages, ops[p].batchId) |-> pages[u]]
    /\ UNCHANGED <<batches, tx, nextId, clock, issued, fresh, content, popup>>

\* The download callback with chrome.runtime.lastError set.
ExportDownloadFailed(p) ==
    /\ ops[p].kind = "export" /\ ops[p].pc = "download"
    /\ ops' = [ops EXCEPT ![p] = Respond(@, "error")]
    /\ UNCHANGED <<batches, pages, tx, nextId, clock, issued, fresh, content, popup>>

\* ------------------------------------------------------------ getPageCount
\* getPageCount: index.count(IDBKeyRange.only(batchId)) for a positive numeric
\* id, store.count() otherwise (no id is 0 here).
getPageCount(pgs, batchId) ==
    IF batchId > 0 THEN Cardinality(PagesOfBatch(pgs, batchId))
    ELSE Cardinality(DOMAIN pgs)

\* GET_PAGE_COUNT: the read-only count is requested.
IssueCount(p, b) ==
    /\ Receive(p, [IdleOp EXCEPT !.kind = "count", !.pc = "read", !.batchId = b])
    /\ UNCHANGED <<batches, pages, tx, nextId, fresh>>

\* request.onsuccess: { status: 'success', count }.
CountRead(p) ==
    /\ ops[p].kind = "count" /\ ops[p].pc = "read"
    /\ ops' = [ops EXCEPT ![p] =
                 Respond([@ EXCEPT !.count = getPageCount(pages, ops[p].batchId)], "success")]
    /\ UNCHANGED <<batches, pages, tx, nextId, clock, issued, fresh, content, popup>>

\* request.onerror: getPageCount rethrows and the handler's catch answers
\* { status: 'error', count: 0 }.
CountReadError(p) ==
    /\ ops[p].kind = "count" /\ ops[p].pc = "read"
    /\ ops' = [ops EXCEPT ![p] = Respond(@, "error")]
    /\ UNCHANGED <<batches, pages, tx, nextId, clock, issued, fresh, content, popup>>

\* ---------------------------------------------------------- unknown action
\* As UnknownAction, with the message dropped and no response sent.
UnknownActionIgnored(op) ==
    Hang(op)

\* default: sendResponse({ success: false, error: `Unknown action: ...` }).
UnknownAction(op) ==
    RespondError(op, "Unknown action")

\* A message whose action is none of the five cases of the switch.
IssueUnknown(p) ==
    /\ Receive(p, UnknownAction([IdleOp EXCEPT !.kind = "unknown"]))
    /\ UNCHANGED <<batches, pages, tx, nextId, fresh>>

\* ----------------------------------------------------------- configuration
\* The strings of the configuration and of the scraped page, as characters.
NA == <<"N", "/", "A">>
Zero == <<"0">>

\* As AvvoRating, with no defaultValue configured.
AvvoRatingWithoutDefault ==
    [selector |-> ".review-score"]

\* SERP_CONFIG.Avvo.fields.rating
AvvoRating ==
    [selector |-> ".review-score", defaultValue |-> NA]

SERP_CONFIG ==
    [Avvo |->
        [name |-> "Avvo",
         listingContainer |-> ".organic-card",
         fields |->
            [businessName |-> [selector |-> "a.search-result-lawyer-name"],
             directoryProfileUrl |->
                [selector |-> "a.search-result-lawyer-name", attribute |-> "href"],
             rating |-> AvvoRating,
             reviewCount |-> [selector |-> ".review-count", defaultValue |-> Zero],
             locationSnippet |-> [selector |-> ".address", defaultValue |-> NA]]],
     FindLaw |->
        [name |-> "FindLaw",
         listingContainer |-> ".lawyer-card",
         fields |->
            [businessName |-> [selector |-> ".name a"],
             directoryProfileUrl |-> [selector |-> ".name a", attribute |-> "href"],
             rating |-> [selector |-> ".rating-value", defaultValue |-> NA],
             reviewCount |-> [selector |-> ".review-count", defaultValue |-> Zero],
             locationSnippet |-> [selector |-> ".location-text", defaultValue |-> NA]]]]

\* --------------------------------------------------------------- extraction
\* An element of the page: its rendered text and its attributes.  `present`
\* is FALSE for the sub-element a listing does not have.
NoElement ==
    [present |-> FALSE, text |-> <<>>, attrs |-> [href |-> <<>>]]

NameLinks ==
    {NoElement,
     [present |-> TRUE, text |-> <<" ", "A", "n", "n", " ">>, attrs |-> [href |-> <<"/", "a">>]],
     [present |-> TRUE, text |-> <<" ">>, attrs |-> [href |-> <<>>]]}

Ratings ==
    {NoElement,
     [present |-> TRUE, text |-> <<"4", ".", "5", " ">>, attrs |-> [href |-> <<>>]],
     [present |-> TRUE, text |-> <<" ", " ">>, attrs |-> [href |-> <<>>]]}

Details ==
    {NoElement,
     [present |-> TRUE, text |-> <<"1", "2">>, attrs |-> [href |-> <<>>]]}

\* An element of a results page of the directory `site`: what it matches, and
\* for each selector that matches one of its descendants, the first of them.
Listing(site, matches, nameLink, rating, detail) ==
    LET fields == site.fields
        first == [s \in {fields[f].selector : f \in DOMAIN fields} |->
                    IF s = fields.businessName.selector THEN nameLink
                    ELSE IF s = fields.rating.selector THEN rating
                    ELSE detail]
    IN  [matches |-> matches,
         found |-> [s \in {t \in DOMAIN first : first[t].present} |-> first[s]]]

\* The listing cards of a results page, and one element that is no listing.
Listings(site) ==
    {Listing(site, site.listingContainer, n, r, d) :
        n \in NameLinks, r \in Ratings, d \in Details}
    \cup {Listing(site, ".banner", NoElement, NoElement, NoElement)}

Documents ==
    UNION {[1..n -> Listings(SERP_CONFIG[dir])] :
              n \in 0..MaxListings, dir \in DOMAIN SERP_CONFIG}

\* element.getAttribute(name): an attribute the element lacks reads as empty.
getAttribute(element, name) ==
    IF name \in DOMAIN element.attrs THEN element.attrs[name] ELSE <<>>

RECURSIVE TrimStart(_)
TrimStart(str) ==
    IF str # <<>> /\ Head(str) = " " THEN TrimStart(Tail(str)) ELSE str

RECURSIVE TrimEnd(_)
TrimEnd(str) ==
    IF str # <<>> /\ str[Len(str)] = " " THEN TrimEnd(SubSeq(str, 1, Len(str) - 1)) ELSE str

\* Leading and trailing whitespace removed.
Trim(str) ==
    TrimEnd(TrimStart(str))

\* The configured defaultValue, or nothing when none is configured.
DefaultValue(field) ==
    IF "defaultValue" \in DOMAIN field
    THEN [found |-> TRUE, value |-> field.defaultValue]
    ELSE [found |-> FALSE, value |-> <<>>]

\* One field of one listing: the first descendant matching the selector, its
\* attribute if one is configured and else its text, the prefix prepended, the
\* whole trimmed; the default when nothing matched or nothing is left.
FieldValue(container, field) ==
    IF field.selector \in DOMAIN container.found
    THEN LET element == container.found[field.selector]
             raw == IF "attribute" \in DOMAIN field
                    THEN getAttribute(element, field.attribute)
                    ELSE element.text
             value == Trim(IF "prefix" \in DOMAIN field THEN field.prefix \o raw ELSE raw)
         IN  IF value # <<>> THEN [found |-> TRUE, value |-> value]
             ELSE DefaultValue(field)
    ELSE DefaultValue(field)

\* The record of one listing: its fields, and the name of the configuration.
ExtractRecord(config, container) ==
    LET got == [f \in DOMAIN config.fields |-> FieldValue(container, config.fields[f])]
    IN  [f \in {g \in DOMAIN config.fields : got[g].found} \cup {"directory"} |->
            IF f = "directory" THEN config.name ELSE got[f].value]

\* extract(config, document): one record per element matched by
\* listingContainer, in document order.
extract(config, document) ==
    LET listings == SelectSeq(document, LAMBDA c : c.matches = config.listingContainer)
    IN  [i \in 1..Len(listings) |-> ExtractRecord(config, listings[i])]

\* "Scrape This Page" with a directory chosen in the popup.
Scrape(dir) ==
    /\ content' = [content EXCEPT !.directory = dir,
                                  !.records = extract(SERP_CONFIG[dir], content.document),
                                  !.scraped = TRUE]
    /\ UNCHANGED <<batches, pages, ops, tx, nextId, clock, issued, fresh, popup>>

\* ---------------------------------------------------- popup: its messages
\* A GET_BATCHES / GET_PAGE_COUNT (getBatches) message of the popup with the
\* callback that waits for it, and the fields of the response.
Query ==
    [type |-> "", batchId |-> 0, callback |-> "", selectLast |-> FALSE, selectBatchId |-> 0,
     status |-> "none", count |-> 0, batches |-> <<>>]

\* chrome.runtime.sendMessage(message, callback) for a message that only reads.
sendMessage(pop, query) ==
    [pop EXCEPT !.calls = @ (+) SetToBag({query})]

\* The responses the listener can give to a query: the count of the index, or
\* the error of a failed request; the sorted list of the store, or the empty
\* list the catch around the read returns.
Responses(query) ==
    IF query.type = "GET_PAGE_COUNT"
    THEN {[query EXCEPT !.status = "success",
                        !.count = getPageCount(pages, query.batchId)],
          [query EXCEPT !.status = "error"]}
    ELSE {[query EXCEPT !.status = "success", !.batches = getAllBatchesFromDb(batches)],
          [query EXCEPT !.status = "success"]}

\* The slot a command of the popup is handled in: the first that is free and
\* whose last response has reached its callback.
CanSend(p) ==
    /\ popup.acts < MaxActs
    /\ Free(p) /\ popup.awaiting[p] = "none"
    /\ \A q \in Procs : q < p => ~(Free(q) /\ popup.awaiting[q] = "none")

\* The text of an option of the dropdown, as characters.
Characters(name) ==
    CASE name = "Foo" -> <<"F", "o", "o">>
      [] name = "foo" -> <<"f", "o", "o">>
      [] name = "bar" -> <<"b", "a", "r">>
      [] OTHER -> <<" ">>

\* What the user types into the new-batch field.
TypedNames == {"Foo", "bar"}

\* ------------------------------------------------------- popup: popup.js
\* The variables and controls of popup.js when the script has run; batch id 0
\* is null, value 0 the "-- No Batch Selected --" option.
PopupLoaded ==
    [script |-> "popup.js", isLoading |-> FALSE, currentBatches |-> <<>>,
     selectedBatchId |-> 0, value |-> 0, pageCount |-> "", sticky |-> 0,
     disabled |-> [save |-> FALSE, export |-> FALSE, delete |-> FALSE,
                   create |-> FALSE, select |-> FALSE],
     calls |-> EmptyBag, awaiting |-> [p \in Procs |-> "none"], acts |-> 0, created |-> 0]

updateButtonStates(pop) ==
    LET hasSelection == pop.selectedBatchId # 0
        off == ~hasSelection \/ pop.isLoading
        next == [pop EXCEPT !.disabled.save = off, !.disabled.export = off,
                            !.disabled.delete = off]
    IN  IF hasSelection
        THEN sendMessage(next, [Query EXCEPT !.type = "GET_PAGE_COUNT",
                                             !.batchId = pop.selectedBatchId,
                                             !.callback = "updateButtonStates"])
        ELSE next

updatePageCount(pop) ==
    IF pop.selectedBatchId = 0
    THEN updateButtonStates([pop EXCEPT !.pageCount = "N/A"])
    ELSE sendMessage([pop EXCEPT !.pageCount = "Loading..."],
                     [Query EXCEPT !.type = "GET_PAGE_COUNT",
                                   !.batchId = pop.selectedBatchId,
                                   !.callback = "updatePageCount"])

setLoading(pop, loading) ==
    LET next == [pop EXCEPT !.isLoading = loading,
                            !.disabled = [save |-> loading, export |-> loading,
                                          delete |-> loading, create |-> loading,
                                          select |-> loading]]
    IN  IF loading THEN next ELSE updatePageCount(updateButtonStates(next))

populateBatchSelect(pop, selectLast) ==
    LET previousValue == pop.value
        list == pop.currentBatches
        valueToSet ==
            IF selectLast /\ Len(list) > 0 THEN list[Len(list)].id
            ELSE IF previousValue # 0 /\ \E i \in DOMAIN list : list[i].id = previousValue
                 THEN previousValue
                 ELSE 0
    IN  updateButtonStates(updatePageCount(
            [pop EXCEPT !.value = valueToSet, !.selectedBatchId = valueToSet]))

loadBatches(pop, selectLast) ==
    sendMessage(pop, [Query EXCEPT !.type = "GET_BATCHES", !.callback = "loadBatches",
                                   !.selectLast = selectLast])

\* The callbacks of updatePageCount, updateButtonStates and loadBatches.
Callback(pop, response) ==
    CASE response.callback = "loadBatches" ->
            populateBatchSelect(
                [pop EXCEPT !.currentBatches = IF response.status = "success"
                                               THEN response.batches ELSE <<>>],
                response.selectLast)
      [] response.callback = "updatePageCount" ->
            IF pop.isLoading THEN pop
            ELSE IF response.status = "success"
            THEN [pop EXCEPT !.pageCount = ToString(response.count),
                             !.disabled.export = (response.count = 0),
                             !.disabled.delete = (response.count = 0)]
            ELSE [pop EXCEPT !.pageCount = "Error",
                             !.disabled.export = TRUE, !.disabled.delete = TRUE]
      [] OTHER ->
            IF pop.isLoading THEN pop
            ELSE IF response.status = "success"
            THEN [pop EXCEPT !.disabled.export = (response.count = 0),
                             !.disabled.delete = (response.count = 0)]
            ELSE [pop EXCEPT !.disabled.export = TRUE, !.disabled.delete = TRUE]

\* DOMContentLoaded: the button states and the count are set with nothing
\* selected, then the session's lastSelectedBatchId is taken and the batches
\* are loaded.
DOMContentLoaded(lastId) ==
    /\ popup.script = "none"
    /\ popup' = loadBatches(
                    [updatePageCount(updateButtonStates(PopupLoaded))
                        EXCEPT !.selectedBatchId = lastId],
                    FALSE)
    /\ UNCHANGED <<batches, pages, ops, tx, nextId, clock, issued, fresh, content>>

\* The listener answers a query of the popup, in one read-only transaction, and
\* the response reaches its callback; the queries are answered in any order.
Deliver ==
    /\ popup.script = "popup.js"
    /\ \E query \in BagToSet(popup.calls) :
          \E response \in Responses(query) :
              popup' = Callback([popup EXCEPT !.calls = @ (-) SetToBag({query})],
                                response)
    /\ UNCHANGED <<batches, pages, ops, tx, nextId, clock, issued, fresh, content>>

\* batchSelect 'change': the user picks another option.
Change(b) ==
    /\ popup.script = "popup.js" /\ popup.acts < MaxActs
    /\ ~popup.disabled.select
    /\ b # popup.value
    /\ b = 0 \/ \E i \in DOMAIN popup.currentBatches : popup.currentBatches[i].id = b
    /\ popup' = updateButtonStates(updatePageCount(
                    [popup EXCEPT !.selectedBatchId = b, !.value = b, !.created = 0,
                                  !.acts = @ + 1]))
    /\ UNCHANGED <<batches, pages, ops, tx, nextId, clock, issued, fresh, content>>

\* A click that sends a command: setLoading(button, true), then sendMessage.
Clicked(p, button) ==
    [setLoading(popup, TRUE) EXCEPT !.awaiting[p] = button, !.created = 0, !.acts = @ + 1]

\* createBatchBtn 'click' with a name typed.
ClickCreate(p, name) ==
    /\ popup.script = "popup.js" /\ CanSend(p)
    /\ ~popup.disabled.create
    /\ ~popup.isLoading
    /\ IssueCreate(p, name)
    /\ popup' = Clicked(p, "create")
    /\ UNCHANGED content

\* saveBtn 'click'; the listener takes the URL and the HTML of the active tab.
ClickSave(p, u, h) ==
    /\ popup.script = "popup.js" /\ CanSend(p)
    /\ ~popup.disabled.save
    /\ ~(popup.isLoading \/ popup.selectedBatchId = 0)
    /\ IssueSave(p, popup.selectedBatchId, u, h)
    /\ popup' = Clicked(p, "save")
    /\ UNCHANGED content

\* The text of the selected option.
SelectedText(pop) ==
    LET list == pop.currentBatches
    IN  IF \E i \in DOMAIN list : list[i].id = pop.value
        THEN Characters(list[CHOOSE i \in DOMAIN list : list[i].id = pop.value].name)
        ELSE <<"-">>

\* exportBtn 'click'.
ClickExport(p) ==
    /\ popup.script = "popup.js" /\ CanSend(p)
    /\ ~popup.disabled.export
    /\ ~(popup.isLoading \/ popup.selectedBatchId = 0)
    /\ IssueExport(p, popup.selectedBatchId, SelectedText(popup))
    /\ popup' = Clicked(p, "export")
    /\ UNCHANGED content

\* deleteBtn 'click', confirmed.
ClickDelete(p) ==
    /\ popup.script = "popup.js" /\ CanSend(p)
    /\ ~popup.disabled.delete
    /\ ~(popup.isLoading \/ popup.selectedBatchId = 0)
    /\ IssueDelete(p, popup.selectedBatchId)
    /\ popup' = Clicked(p, "delete")
    /\ UNCHANGED content

\* The response to a command reaches the callback of its click handler:
\* setLoading(button, false), then the reload after a create or a delete.
Responded(p) ==
    /\ popup.script = "popup.js"
    /\ popup.awaiting[p] # "none" /\ ops[p].pc = "done"
    /\ LET button == popup.awaiting[p]
           ok == ops[p].status = "success"
           next == setLoading([popup EXCEPT !.awaiting[p] = "none"], FALSE)
       IN  popup' =
             IF button = "create" /\ ok
             THEN loadBatches([next EXCEPT !.created = ops[p].batchId], TRUE)
             ELSE IF button = "delete" /\ ok
             THEN loadBatches([next EXCEPT !.selectedBatchId = 0], FALSE)
             ELSE next
    /\ UNCHANGED <<batches, pages, ops, tx, nextId, clock, issued, fresh, content>>

\* -------------------------------------- popup: the script in background.js
\* updateButtonStates: the three buttons and the count follow the dropdown.
updateButtonStatesSticky(pop) ==
    LET batchIsSelected == pop.value # 0
        list == pop.currentBatches
        shown == {i \in DOMAIN list : list[i].id = pop.value}
    IN  [pop EXCEPT !.disabled.save = ~batchIsSelected,
                    !.disabled.export = ~batchIsSelected,
                    !.disabled.delete = ~batchIsSelected,
                    !.pageCount = IF ~batchIsSelected THEN "N/A"
                                  ELSE IF shown = {} THEN "0"
                                  ELSE ToString(list[CHOOSE i \in shown : TRUE].pageCount)]

\* batchSelect 'change' listener: the selection is made sticky in storage.
changeSticky(pop) ==
    [updateButtonStatesSticky(pop) EXCEPT !.sticky = pop.value]

\* populateBatchList: the dropdown is rebuilt; the batch asked for is selected
\* when it is listed, and otherwise the sticky one read from storage.
populateBatchList(pop, list, selectBatchId) ==
    LET listed(id) == id # 0 /\ \E i \in DOMAIN list : list[i].id = id
        rebuilt == [pop EXCEPT !.currentBatches = list, !.value = 0]
    IN  IF listed(selectBatchId) THEN changeSticky([rebuilt EXCEPT !.value = selectBatchId])
        ELSE IF listed(pop.sticky) THEN changeSticky([rebuilt EXCEPT !.value = pop.sticky])
        ELSE changeSticky(updateButtonStatesSticky(rebuilt))

loadBatchesSticky(pop, selectBatchId) ==
    sendMessage(pop, [Query EXCEPT !.type = "getBatches", !.callback = "loadBatches",
                                   !.selectBatchId = selectBatchId])

\* DOMContentLoaded: loadBatches(), with the sticky id an earlier popup left.
StickyLoaded(lastId) ==
    /\ popup.script = "none"
    /\ popup' = loadBatchesSticky([PopupLoaded EXCEPT !.script = "sticky", !.sticky = lastId], 0)
    /\ UNCHANGED <<batches, pages, ops, tx, nextId, clock, issued, fresh, content>>

\* The getBatches response reaches loadBatches' callback: a failure populates
\* the empty list.
StickyDeliver ==
    /\ popup.script = "sticky"
    /\ \E query \in BagToSet(popup.calls) :
          \E response \in Responses(query) :
              popup' = populateBatchList([popup EXCEPT !.calls = @ (-) SetToBag({query})],
                                         response.batches, response.selectBatchId)
    /\ UNCHANGED <<batches, pages, ops, tx, nextId, clock, issued, fresh, content>>

\* The user picks another option of the dropdown.
StickyChange(b) ==
    /\ popup.script = "sticky" /\ popup.acts < MaxActs
    /\ b # popup.value
    /\ b = 0 \/ \E i \in DOMAIN popup.currentBatches : popup.currentBatches[i].id = b
    /\ popup' = changeSticky([popup EXCEPT !.value = b, !.created = 0, !.acts = @ + 1])
    /\ UNCHANGED <<batches, pages, ops, tx, nextId, clock, issued, fresh, content>>

\* createBatchBtn 'click': a name that is not among the listed ones is sent;
\* no control is disabled.
StickyClickCreate(p, name) ==
    /\ popup.script = "sticky" /\ CanSend(p)
    /\ ~\E i \in DOMAIN popup.currentBatches :
            ToLowerCase(popup.currentBatches[i].name) = ToLowerCase(name)
    /\ IssueCreate(p, name)
    /\ popup' = [popup EXCEPT !.awaiting[p] = "create", !.created = 0, !.acts = @ + 1]
    /\ UNCHANGED content

\* savePageBtn 'click': the button itself is disabled, the active tab queried
\* and the message sent.
StickyClickSave(p, u, h) ==
    /\ popup.script = "sticky" /\ CanSend(p)
    /\ ~popup.disabled.save
    /\ popup.value # 0
    /\ IssueSave(p, popup.value, u, h)
    /\ popup' = [popup EXCEPT !.disabled.save = TRUE, !.awaiting[p] = "save",
                              !.created = 0, !.acts = @ + 1]
    /\ UNCHANGED content

\* exportDataBtn 'click' with a listed batch selected.
StickyClickExport(p) ==
    /\ popup.script = "sticky" /\ CanSend(p)
    /\ ~popup.disabled.export
    /\ \E i \in DOMAIN popup.currentBatches : popup.currentBatches[i].id = popup.value
    /\ IssueExport(p, popup.value, SelectedText(popup))
    /\ popup' = [popup EXCEPT !.disabled.export = TRUE, !.awaiting[p] = "export",
                              !.created = 0, !.acts = @ + 1]
    /\ UNCHANGED content

\* deleteBatchBtn 'click' with a listed batch selected, confirmed.
StickyClickDelete(p) ==
    /\ popup.script = "sticky" /\ CanSend(p)
    /\ ~popup.disabled.delete
    /\ \E i \in DOMAIN popup.currentBatches : popup.currentBatches[i].id = popup.value
    /\ IssueDelete(p, popup.value)
    /\ popup' = [popup EXCEPT !.disabled.delete = TRUE, !.awaiting[p] = "delete",
                              !.created = 0, !.acts = @ + 1]
    /\ UNCHANGED content

\* The response to a command reaches the callback of its click handler: the
\* button is enabled again and, on success, the list reloaded.
StickyResponded(p) ==
    /\ popup.script = "sticky"
    /\ popup.awaiting[p] # "none" /\ ops[p].pc = "done"
    /\ LET button == popup.awaiting[p]
           ok == ops[p].status = "success"
           next == [popup EXCEPT !.awaiting[p] = "none"]
       IN  popup' =
             CASE button = "create" ->
                    IF ok
                    THEN loadBatchesSticky(
                             loadBatchesSticky([next EXCEPT !.sticky = ops[p].batchId,
                                                            !.created = ops[p].batchId], 0),
                             ops[p].batchId)
                    ELSE next
               [] button = "save" ->
                    IF ok
                    THEN loadBatchesSticky([next EXCEPT !.disabled.save = FALSE], next.sticky)
                    ELSE [next EXCEPT !.disabled.save = FALSE]
               [] button = "export" -> [next EXCEPT !.disabled.export = FALSE]
               [] OTHER ->
                    IF ok
                    THEN loadBatchesSticky(
                             [next EXCEPT !.disabled.delete = FALSE,
                                          !.sticky = IF @ = ops[p].batchId THEN 0 ELSE @],
                             0)
                    ELSE [next EXCEPT !.disabled.delete = FALSE]
    /\ UNCHANGED <<batches, pages, ops, tx, nextId, clock, issued, fresh, content>>

\* ------------------------------------------------------------ specification
\* An IndexedDB or downloads event delivered to a handler that waits for it.
Step(p) ==
    \/ CreateCheck(p) \/ CreateInsert(p) \/ CreateCommitFails(p) \/ CreateAddError(p)
    \/ SaveCheck(p) \/ SaveCheckError(p) \/ SaveWrite(p) \/ SaveTxError(p) \/ SaveTxAbort(p)
    \/ DeleteBegin(p) \/ DeleteCursor(p) \/ DeleteCommit(p) \/ DeleteTxError(p)
    \/ DeleteTxAbort(p)
    \/ ListRead(p) \/ ListReadError(p) \/ ListTransactionThrows(p) \/ ListCaught(p)
    \/ ExportRead(p) \/ ExportReadError(p) \/ ExportTransactionThrows(p)
    \/ ExportCaught(p) \/ ExportDownloadStarted(p) \/ ExportDownloadFailed(p)
    \/ CountRead(p) \/ CountReadError(p)

\* The batch ids a request may carry: none (0), an id createBatch has generated,
\* or one it never generated.
BatchInputs ==
    (0..nextId) \cup {StrayId}

\* Messages arrive whenever the listener is called: several popups, rapid clicks.
\* A new message takes the first free slot.
Ready(p) ==
    /\ issued < MaxCmds
    /\ Free(p) /\ \A q \in Procs : q < p => ~Free(q)

Next ==
    \/ \E p \in Procs, name \in Names : Ready(p) /\ IssueCreate(p, name) /\ Apart
    \/ \E p \in Procs, b \in BatchInputs, u \in 0..MaxUrls, h \in Htmls \cup {""} :
          Ready(p) /\ IssueSave(p, b, u, h) /\ Apart
    \/ \E p \in Procs, b \in BatchInputs : Ready(p) /\ IssueDelete(p, b) /\ Apart
    \/ \E p \in Procs : Ready(p) /\ IssueList(p) /\ Apart
    \/ \E p \in Procs, b \in BatchInputs, name \in ExportNames :
          Ready(p) /\ IssueExport(p, b, name) /\ Apart
    \/ \E p \in Procs, b \in BatchInputs : Ready(p) /\ IssueCount(p, b) /\ Apart
    \/ \E p \in Procs : Ready(p) /\ IssueUnknown(p) /\ Apart
    \/ \E p \in Procs : Step(p)

Spec == Init /\ [][Next]_vars

\* One command at a time, as the popup sends them: the next message is sent
\* after the last response, and carries the id of a batch the popup has listed.
ReadySeq ==
    issued < MaxCmdsSeq /\ AtRest

ListedIds ==
    0..nextId

NextSeq ==
    \/ \E name \in Names : ReadySeq /\ IssueCreate(1, name) /\ Apart
    \/ \E b \in ListedIds, u \in 0..MaxUrls, h \in Htmls \cup {""} :
          ReadySeq /\ IssueSave(1, b, u, h) /\ Apart
    \/ \E b \in ListedIds : ReadySeq /\ IssueDelete(1, b) /\ Apart
    \/ ReadySeq /\ IssueList(1) /\ Apart
    \/ \E b \in ListedIds, name \in ExportNames : ReadySeq /\ IssueExport(1, b, name) /\ Apart
    \/ \E b \in ListedIds : ReadySeq /\ IssueCount(1, b) /\ Apart
    \/ ReadySeq /\ IssueUnknown(1) /\ Apart
    \/ Step(1)

SpecSeq == Init /\ [][NextSeq]_vars

\* Reads racing a cascade: the store holds batch 1 "Foo" with pages 1 and 2 (as
\* createBatch, savePage, savePage leave it) and deleteBatch, getBatches and
\* exportBatch commands overlap.
StoredBatches ==
    StorePut(EmptyStore, 1, [NewBatch(1, "Foo", 0) EXCEPT !.pageCount = 2, !.lastSavedAt = 2])

StoredPages ==
    [u \in {1, 2} |->
        PageRecord([IdleOp EXCEPT !.url = u, !.batchId = 1, !.html = "h1", !.at = u])]

InitStored ==
    /\ batches = StoredBatches
    /\ pages = StoredPages
    /\ ops = [p \in Procs |-> IdleOp]
    /\ tx = NoTx
    /\ nextId = 1
    /\ clock = 2
    /\ issued = 0
    /\ fresh = NoFresh
    /\ content = NoContent
    /\ popup = NoPopup

NextCascade ==
    \/ \E p \in Procs, b \in BatchInputs : Ready(p) /\ IssueDelete(p, b) /\ Apart
    \/ \E p \in Procs : Ready(p) /\ IssueList(p) /\ Apart
    \/ \E p \in Procs, b \in BatchInputs, name \in ExportNames :
          Ready(p) /\ IssueExport(p, b, name) /\ Apart
    \/ \E p \in Procs :
          \/ DeleteBegin(p) \/ DeleteCursor(p) \/ DeleteCommit(p) \/ DeleteTxError(p)
          \/ DeleteTxAbort(p)
          \/ ListRead(p) \/ ListReadError(p) \/ ListTransactionThrows(p) \/ ListCaught(p)
          \/ ExportRead(p) \/ ExportReadError(p) \/ ExportTransactionThrows(p)
          \/ ExportCaught(p) \/ ExportDownloadStarted(p) \/ ExportDownloadFailed(p)

SpecCascade == InitStored /\ [][NextCascade]_vars

\* Two savePage commands in flight together: the store holds batch 1 "Foo" with no
\* page (as createBatch leaves it) and two savePage messages arrive.
CreatedBatches ==
    StorePut(EmptyStore, 1, NewBatch(1, "Foo", 0))

InitCreated ==
    /\ batches = CreatedBatches
    /\ pages = EmptyStore
    /\ ops = [p \in Procs |-> IdleOp]
    /\ tx = NoTx
    /\ nextId = 1
    /\ clock = 0
    /\ issued = 0
    /\ fresh = [batchId |-> 1, urls |-> {}]
    /\ content = NoContent
    /\ popup = NoPopup

NextRace ==
    \/ \E p \in Procs, b \in BatchInputs, u \in 0..MaxUrls, h \in Htmls \cup {""} :
          issued < 2 /\ Ready(p) /\ IssueSave(p, b, u, h) /\ Apart
    \/ \E p \in Procs :
          \/ SaveCheck(p) \/ SaveCheckError(p) \/ SaveWrite(p) \/ SaveTxError(p)
          \/ SaveTxAbort(p)

SpecRace == InitCreated /\ [][NextRace]_vars

\* createBatch commands only, overlapping: the uniqueness check of one may fall
\* between the check and the insert of another.
NextCreates ==
    \/ \E p \in Procs, name \in Names : Ready(p) /\ IssueCreate(p, name) /\ Apart
    \/ \E p \in Procs :
          \/ CreateCheck(p) \/ CreateInsert(p) \/ CreateCommitFails(p)
          \/ CreateAddError(p)

SpecCreates == Init /\ [][NextCreates]_vars

\* The content script alone: it is loaded into a results page and scrapes it.
InitExtract ==
    /\ batches = EmptyStore
    /\ pages = EmptyStore
    /\ ops = [p \in Procs |-> IdleOp]
    /\ tx = NoTx
    /\ nextId = 0
    /\ clock = 0
    /\ issued = 0
    /\ fresh = NoFresh
    /\ content \in {[NoContent EXCEPT !.document = d] : d \in Documents}
    /\ popup = NoPopup

NextExtract ==
    \E dir \in DOMAIN SERP_CONFIG : Scrape(dir)

SpecExtract == InitExtract /\ [][NextExtract]_vars

\* The popup of popup.js opened on the store of SpecCascade, and the listener
\* that serves it.
NextPopup ==
    \/ \E lastId \in 0..nextId : DOMContentLoaded(lastId)
    \/ \E b \in 0..MaxBatches : Change(b)
    \/ \E p \in Procs, name \in TypedNames : ClickCreate(p, name)
    \/ \E p \in Procs, u \in Urls, h \in {"h1", ""} : ClickSave(p, u, h)
    \/ \E p \in Procs : ClickExport(p)
    \/ \E p \in Procs : ClickDelete(p)
    \/ \E p \in Procs : Responded(p)
    \/ Deliver
    \/ \E p \in Procs :
          \/ CreateCheck(p) \/ CreateInsert(p) \/ CreateCommitFails(p) \/ CreateAddError(p)
          \/ SaveCheck(p) \/ SaveCheckError(p) \/ SaveWrite(p) \/ SaveTxError(p)
          \/ SaveTxAbort(p)
          \/ DeleteBegin(p) \/ DeleteCursor(p) \/ DeleteCommit(p) \/ DeleteTxError(p)
          \/ DeleteTxAbort(p)
          \/ ExportRead(p) \/ ExportReadError(p) \/ ExportTransactionThrows(p)
          \/ ExportCaught(p) \/ ExportDownloadStarted(p) \/ ExportDownloadFailed(p)

SpecPopup == InitStored /\ [][NextPopup]_vars

\* The popup whose script is in background.js opened on the same store.
NextSticky ==
    \/ \E lastId \in 0..nextId : StickyLoaded(lastId)
    \/ \E b \in 0..MaxBatches : StickyChange(b)
    \/ \E p \in Procs, name \in TypedNames : StickyClickCreate(p, name)
    \/ \E p \in Procs, u \in Urls, h \in {"h1", ""} : StickyClickSave(p, u, h)
    \/ \E p \in Procs : StickyClickExport(p)
    \/ \E p \in Procs : StickyClickDelete(p)
    \/ \E p \in Procs : StickyResponded(p)
    \/ StickyDeliver
    \/ \E p \in Procs :
          \/ CreateCheck(p) \/ CreateInsert(p) \/ CreateCommitFails(p) \/ CreateAddError(p)
          \/ SaveCheck(p) \/ SaveCheckError(p) \/ SaveWrite(p) \/ SaveTxError(p)
          \/ SaveTxAbort(p)
          \/ DeleteBegin(p) \/ DeleteCursor(p) \/ DeleteCommit(p) \/ DeleteTxError(p)
          \/ DeleteTxAbort(p)
          \/ ExportRead(p) \/ ExportReadError(p) \/ ExportTransactionThrows(p)
          \/ ExportCaught(p) \/ ExportDownloadStarted(p) \/ ExportDownloadFailed(p)

SpecSticky == InitStored /\ [][NextSticky]_vars

\* The store SpecCascade starts from is one the commands produce.
StoredReached ==
    batches = StoredBatches /\ pages = StoredPages /\ AtRest

\* The store SpecRace starts from is one the commands produce.
CreatedReached ==
    batches = CreatedBatches /\ pages = EmptyStore /\ AtRest /\ nextId = 1

\* =================================================================== claims
CountOf(b) == Cardinality(PagesOfBatch(pages, b))

DoneSave(p) ==
    ops[p].kind = "save" /\ ops[p].pc = "done" /\ ops[p].status = "success"

\* C1: after any sequence of completed createBatch, savePage and deleteBatch
\* commands, every existing batch's pageCount equals the number of stored pages
\* whose batchId is that batch's id.
C1_CountEqualsLinkedPages ==
    AtRest => \A b \in DOMAIN batches : batches[b].pageCount = CountOf(b)

\* C2: two savePage commands in flight together for the same not-yet-stored URL
\* into the same batch leave the batch's pageCount increased by exactly 1.
C2_SameUrlRaceCountsOnce ==
    \A p, q \in Procs :
        (/\ p # q /\ DoneSave(p) /\ DoneSave(q)
         /\ ops[p].url = ops[q].url /\ ops[p].batchId = ops[q].batchId
         /\ ops[p].home0 = 0 /\ ops[q].home0 = 0
         /\ ops[p].batchId \in DOMAIN batches)
        => batches[ops[p].batchId].pageCount = ops[p].cnt0 + 1

C4_ResaveKeepsCountAndOverwrites ==
    \A p \in Procs :
        (DoneSave(p) /\ ops[p].home0 = ops[p].batchId /\ ops[p].cnt0 >= 0)
        => /\ batches[ops[p].batchId].pageCount = ops[p].cnt0
           /\ pages[ops[p].url].html_content = ops[p].html
           /\ pages[ops[p].url].retrieved_at = ops[p].at

C4_Witness ==
    \E p \in Procs :
        /\ DoneSave(p) /\ ops[p].home0 = ops[p].batchId /\ ops[p].cnt0 = 1
        /\ batches[ops[p].batchId].pageCount = 1
        /\ pages[ops[p].url].html_content = "h2"
        /\ pages[ops[p].url].retrieved_at = 2

\* C5: after N savePage calls with K distinct URLs, all into one freshly created
\* batch, that batch's pageCount is K.
C5_FreshBatchCountsDistinctUrls ==
    (AtRest /\ fresh.batchId \in DOMAIN batches)
    => batches[fresh.batchId].pageCount = Cardinality(fresh.urls)

\* C6: a savePage whose batchId matches no existing batch fails and writes
\* nothing: no page record is created or overwritten, no batch record changes.
C6_SaveToMissingBatchWritesNothing ==
    [][\A p \in Procs :
         (/\ ops[p].kind = "save" /\ ops[p].pc = "write" /\ ops'[p].pc = "done"
          /\ ops[p].batchId \notin DOMAIN batches)
         => /\ ops'[p].status = "error"
            /\ pages' = pages
            /\ batches' = batches]_vars

\* C7: at rest every stored page's batchId is the id of an existing batch.
C7_NoOrphanPagesAtRest ==
    AtRest => \A u \in DOMAIN pages : pages[u].batchId \in DOMAIN batches

\* C8: when deleteBatch(b) completes successfully no stored page has batchId b
\* and b is absent from the result of listBatches.
C8_CascadeComplete ==
    [][\A p \in Procs :
         (/\ ops[p].kind = "delete" /\ ops[p].pc = "cascade"
          /\ ops'[p].pc = "done" /\ ops'[p].status = "success")
         => /\ PagesOfBatch(pages', ops[p].batchId) = {}
            /\ \A i \in DOMAIN getAllBatchesFromDb(batches') :
                   getAllBatchesFromDb(batches')[i].id # ops[p].batchId]_vars

C8_Witness ==
    \E p \in Procs :
        /\ ops[p].kind = "delete" /\ ops[p].pc = "done" /\ ops[p].status = "success"
        /\ ops[p].count >= 1
        /\ ops[p].batchId \notin DOMAIN batches
        /\ PagesOfBatch(pages, ops[p].batchId) = {}

\* C9: a read made while deleteBatch(b) is in progress sees no intermediate
\* state: getBatches still lists b and the pages read for b are all of b's pages,
\* as they were when the cascade began.
C9_ReadsSeeNoPartialCascade ==
    [][\A p \in Procs :
         tx.active =>
           /\ (ops[p].kind = "list" /\ ops[p].pc = "read" /\ ops'[p].status = "success")
              => ((\E i \in DOMAIN ops'[p].result : ops'[p].result[i].id = tx.batchId)
                  <=> tx.batchId \in DOMAIN tx.batches0)
           /\ (ops[p].kind = "export" /\ ops[p].pc = "read" /\ ops'[p].pc = "download"
               /\ ops[p].batchId = tx.batchId)
              => ops'[p].result = getPagesForBatch(tx.pages0, tx.batchId)]_vars

C9_Witness ==
    \E p \in Procs :
        /\ tx.active /\ tx.batchId \in DOMAIN tx.batches0
        /\ Cardinality(PagesOfBatch(tx.pages, tx.batchId)) = 1
        /\ ops[p].kind = "export" /\ ops[p].pc = "download"
        /\ ops[p].batchId = tx.batchId
        /\ Len(ops[p].result) = 2

\* C10: when the deleteBatch transaction errors or aborts part-way through the
\* cascade, the store is as it was before the call (the batch record and every
\* one of its pages present) and the command reports failure.
C10_FailedCascadeLeavesStore ==
    [][\A p \in Procs :
         (/\ ops[p].kind = "delete" /\ ops[p].pc = "cascade"
          /\ tx.active /\ tx.owner = p /\ ~tx'.active
          /\ PagesOfBatch(tx.pages, tx.batchId) # {})
         => /\ batches' = tx.batches0
            /\ pages' = tx.pages0
            /\ ops'[p].pc = "done" /\ ops'[p].status = "error"]_vars

C10_Witness ==
    \E p \in Procs :
        /\ ops[p].kind = "delete" /\ ops[p].pc = "done" /\ ops[p].status = "error"
        /\ ops[p].count = 1
        /\ ~tx.active
        /\ batches = StoredBatches /\ pages = StoredPages

\* Two names are equal ignoring letter case.
SameNameIgnoringCase(m, n) ==
    ToLowerCase(m) = ToLowerCase(n)

UniqueNames(bs) ==
    \A x, y \in DOMAIN bs : SameNameIgnoringCase(bs[x].name, bs[y].name) => x = y

C12_RacingCreatesInsertOnce ==
    \A p, q \in Procs :
        (/\ p # q
         /\ ops[p].kind = "create" /\ ops[q].kind = "create"
         /\ ops[p].pc = "done" /\ ops[q].pc = "done"
         /\ SameNameIgnoringCase(ops[p].name, ops[q].name)
         /\ ops[p].status = "success" /\ ops[q].status = "success")
        => ~(ops[p].batchId \in DOMAIN batches /\ ops[q].batchId \in DOMAIN batches)

\* A name that is empty or consists only of whitespace.
IsBlank(name) ==
    name \in {"", " "}

\* C13: no stored batch has an empty or whitespace-only name, and a createBatch
\* with such a name that has been answered was answered with an error.
C13_BlankNameRejected ==
    /\ \A b \in DOMAIN batches : ~IsBlank(batches[b].name)
    /\ \A p \in Procs :
          (ops[p].kind = "create" /\ ops[p].pc = "done" /\ IsBlank(ops[p].name))
          => ops[p].status = "error"

C15_DeleteMissingChangesNothing ==
    [][\A p \in Procs :
         (/\ ops[p].kind = "delete" /\ ops[p].pc = "cascade"
          /\ tx.active /\ tx.owner = p
          /\ ops[p].batchId \notin DOMAIN tx.batches0
          /\ ops'[p].pc = "done" /\ ops'[p].status = "success")
         => (batches' = tx.batches0 /\ pages' = tx.pages0)]_vars

C18_LastSavedAtIsSaveTime ==
    [][\A p \in Procs :
         (/\ ops[p].kind = "save" /\ ops[p].pc = "write"
          /\ ops'[p].pc = "done" /\ ops'[p].status = "success"
          /\ ops[p].batchId \in DOMAIN batches)
         => /\ ops[p].batchId \in DOMAIN batches'
            /\ batches'[ops[p].batchId].lastSavedAt = ops[p].at]_vars

C18_Witness ==
    \E p \in Procs :
        /\ ops[p].kind = "save" /\ ops[p].pc = "done" /\ ops[p].status = "success"
        /\ ops[p].pageExists /\ ops[p].at >= 2
        /\ ops[p].batchId \in DOMAIN batches
        /\ batches[ops[p].batchId].lastSavedAt = ops[p].at
        /\ pages[ops[p].url].retrieved_at = ops[p].at

\* C19: no command is left without a response: none ends with its handler's
\* promise pending forever and sendResponse never called.
C19_EveryCommandAnswered ==
    \A p \in Procs : ops[p].pc # "hung"

AnsweredError(op) ==
    op.pc = "done" /\ op.status = "error"

\* C21: a createBatch, savePage or deleteBatch whose transaction ends without
\* its writes reaching the store (an abort) is answered, with an error result.
C21_AbortedCommandAnsweredWithError ==
    [][\A p \in Procs :
         /\ (/\ ops[p].kind = "create" /\ ops[p].pc = "insert" /\ ops'[p].pc # "insert"
             /\ ops[p].batchId \notin DOMAIN batches')
            => AnsweredError(ops'[p])
         /\ (/\ ops[p].kind = "save" /\ ops[p].pc = "write" /\ ops'[p].pc # "write"
             /\ ~(/\ ops[p].url \in DOMAIN pages'
                  /\ pages'[ops[p].url] = PageRecord(ops[p])))
            => AnsweredError(ops'[p])
         /\ (/\ ops[p].kind = "delete" /\ ops[p].pc = "cascade"
             /\ tx.active /\ tx.owner = p /\ ~tx'.active
             /\ \/ ops[p].batchId \in DOMAIN batches'
                \/ PagesOfBatch(pages', ops[p].batchId) # {})
            => AnsweredError(ops'[p])]_vars

\* C22: a savePage that has written its page while the batch it names has no
\* record is answered with a status that is neither success nor error.
C22_PageWithoutBatchAnsweredPartial ==
    [][\A p \in Procs :
         (/\ ops[p].kind = "save" /\ ops[p].pc = "write" /\ ops'[p].pc = "done"
          /\ ops[p].batchId \notin DOMAIN batches
          /\ ops[p].url \in DOMAIN pages'
          /\ pages'[ops[p].url] = PageRecord(ops[p]))
         => ops'[p].status \notin {"success", "error"}]_vars

\* C23: getBatches never answers success with an empty list while the batches
\* store holds a batch.
C23_ListNeverEmptyWhileBatchesExist ==
    [][\A p \in Procs :
         (/\ ops[p].kind = "list" /\ ops[p].pc # "done"
          /\ ops'[p].pc = "done" /\ ops'[p].status = "success"
          /\ ops'[p].result = <<>>)
         => DOMAIN batches = {}]_vars

\* C24: exportBatch reading a batch that has no page starts no download.
C24_EmptyExportStartsNoDownload ==
    [][\A p \in Procs :
         (/\ ops[p].kind = "export" /\ ops[p].pc = "read"
          /\ PagesOfBatch(pages, ops[p].batchId) = {})
         => ops'[p].pc # "download"]_vars

\* C25: the answer to an export of a batch without pages is not an error and
\* differs from the answer to an export that started a download: another
\* status, or a message with the success.
C25_EmptyExportAnsweredDistinctly ==
    [][\A p \in Procs :
         (/\ ops[p].kind = "export" /\ ops[p].pc # "done" /\ ops'[p].pc = "done"
          /\ ops[p].batchId # 0
          /\ ops[p].result = <<>>
          /\ PagesOfBatch(pages, ops[p].batchId) = {})
         => /\ ops'[p].status # "error"
            /\ (ops'[p].status # "success" \/ ops'[p].error # "")]_vars

\* Reading an exported file back: the lines between line breaks.
RECURSIVE SplitLines(_)
SplitLines(tokens) ==
    IF tokens = <<>> THEN <<>>
    ELSE IF \E i \in DOMAIN tokens : tokens[i] = "\n"
    THEN LET cut == CHOOSE i \in DOMAIN tokens :
                       tokens[i] = "\n" /\ \A j \in 1..(i - 1) : tokens[j] # "\n"
         IN  <<SubSeq(tokens, 1, cut - 1)>> \o SplitLines(SubSeq(tokens, cut + 1, Len(tokens)))
    ELSE <<tokens>>

\* JSON.parse's reading of a string: \n becomes a line break.
UnescapeJson(runs) ==
    [i \in DOMAIN runs |-> IF runs[i] = "\\n" THEN "\n" ELSE runs[i]]

ParseNumber(token) ==
    CHOOSE n \in 0..99 : ToString(n) = token

\* JSON.parse of one line: the object as a function from its keys to its values.
RECURSIVE JsonParse(_)
JsonParse(tokens) ==
    IF Len(tokens) < 2 THEN [k \in {} |-> 0]
    ELSE IF tokens[2] = "\""
    THEN LET close == CHOOSE i \in 3..Len(tokens) :
                         tokens[i] = "\"" /\ \A j \in 3..(i - 1) : tokens[j] # "\""
         IN  (tokens[1] :> UnescapeJson(SubSeq(tokens, 3, close - 1)))
                @@ JsonParse(SubSeq(tokens, close + 1, Len(tokens)))
    ELSE (tokens[1] :> ParseNumber(tokens[2])) @@ JsonParse(SubSeq(tokens, 3, Len(tokens)))

\* A parsed object has exactly the fields of the stored page, with its values.
SameAsStored(object, page) ==
    /\ DOMAIN object = {PageFields[i] : i \in DOMAIN PageFields}
    /\ DOMAIN object = DOMAIN page
    /\ \A f \in DOMAIN object :
          object[f] = IF f \in NumberFields THEN page[f] ELSE Text(page[f])

\* C26: the file an export builds has exactly one line per page stored under the
\* batch and none for another batch's pages, and each line parses to an object
\* with exactly the stored page's fields and values.
C26_ExportRoundTrip ==
    [][\A p \in Procs :
         (ops[p].kind = "export" /\ ops[p].pc = "read" /\ ops'[p].pc = "download")
         => LET lines == SplitLines(ops'[p].blob)
                linked == PagesOfBatch(pages, ops[p].batchId)
            IN  /\ Len(lines) = Cardinality(linked)
                /\ \A u \in linked :
                      \E i \in DOMAIN lines : SameAsStored(JsonParse(lines[i]), pages[u])
                /\ \A i \in DOMAIN lines :
                      \E u \in linked : SameAsStored(JsonParse(lines[i]), pages[u])]_vars

C26_Witness ==
    /\ ops[1].kind = "export" /\ ops[1].pc = "download"
    /\ Len(ops[1].result) = 2
    /\ Len(SplitLines(ops[1].blob)) = 2
    /\ \E i \in 1..2 : ops[1].result[i].html_content = "h2"
    /\ PagesOfBatch(pages, ops[1].batchId) = {1, 2}

\* C27: no step of an exportBatch, getBatches or getPageCount command, from its
\* arrival to its answer and whether the download starts or fails, changes a
\* batch record or a page record.
C27_ReadsLeaveStoreUnchanged ==
    [][\A p \in Procs :
         (ops'[p] # ops[p] /\ ops'[p].kind \in {"export", "list", "count"})
         => (batches' = batches /\ pages' = pages)]_vars

C27_Witness ==
    \E p \in Procs :
        /\ ops[p].kind = "export" /\ ops[p].pc = "done" /\ ops[p].status = "error"
        /\ Len(ops[p].result) >= 1
        /\ getPagesForBatch(pages, ops[p].batchId) = ops[p].result
        /\ ops[p].batchId \in DOMAIN batches

\* C28: the list getBatches reads holds every stored batch exactly once, in
\* ascending order of the lower-cased names.
C28_ListCompleteAndSorted ==
    [][\A p \in Procs :
         (/\ ops[p].kind = "list" /\ ops[p].pc = "read"
          /\ ops'[p].pc = "done" /\ ops'[p].status = "success")
         => LET list == ops'[p].result
            IN  /\ Len(list) = Cardinality(DOMAIN batches)
                /\ \A b \in DOMAIN batches : \E i \in DOMAIN list : list[i] = batches[b]
                /\ \A i, j \in DOMAIN list :
                      i < j => LocaleRank(ToLowerCase(list[i].name))
                                  <= LocaleRank(ToLowerCase(list[j].name))]_vars

C28_Witness ==
    /\ ops[1].kind = "list" /\ ops[1].pc = "done" /\ ops[1].status = "success"
    /\ Len(ops[1].result) = 2
    /\ ops[1].result[1].id = 2 /\ ops[1].result[1].name = "bar"
    /\ ops[1].result[2].id = 1 /\ ops[1].result[2].name = "Foo"

\* C29: getPageCount answers, for a batch id, the number of stored pages with
\* that batchId, and 0 when no batch has the id; without an id, the number of
\* all stored pages.
C29_PageCountPerBatchOrTotal ==
    [][\A p \in Procs :
         (/\ ops[p].kind = "count" /\ ops[p].pc = "read"
          /\ ops'[p].pc = "done" /\ ops'[p].status = "success")
         => LET b == ops[p].batchId
            IN  /\ b # 0 => ops'[p].count = Cardinality({u \in DOMAIN pages : pages[u].batchId = b})
                /\ (b # 0 /\ b \notin DOMAIN batches) => ops'[p].count = 0
                /\ b = 0 => ops'[p].count = Cardinality(DOMAIN pages)]_vars

\* The characters the filename keeps: letters, digits, '_', '.' and '-'.
FilenameSafeChars ==
    KeptChars \cup {"."}

\* C30: the filename of an export carries the batch name with every character
\* outside [a-zA-Z0-9_.-] replaced by '_' and the others kept, cut to the
\* bounded length, then the batch id and the time of the export.
C30_FilenameSanitised ==
    [][\A p \in Procs :
         (ops[p].kind = "export" /\ ops[p].pc # "download" /\ ops'[p].pc = "download")
         => LET given == ops[p].batchName
                safe == ops'[p].filename.name
            IN  /\ Len(safe) <= MaxSafeNameLen
                /\ Len(safe) = Len(given) \/ Len(safe) = MaxSafeNameLen
                /\ \A i \in DOMAIN safe :
                      safe[i] = IF given[i] \in FilenameSafeChars THEN given[i] ELSE "_"
                /\ ops'[p].filename.id = ops[p].batchId
                /\ ops'[p].filename.timestamp = clock]_vars

\* C32: a completed savePage of a URL that is stored under another batch leaves
\* one record for the URL, now carrying the new batchId, and changes the
\* pageCount of neither the old nor the new batch.
C32_ResaveIntoOtherBatchMovesPage ==
    [][\A p \in Procs :
         (/\ ops[p].kind = "save" /\ ops[p].pc = "write"
          /\ ops'[p].pc = "done" /\ ops'[p].status = "success"
          /\ ops[p].url \in DOMAIN pages
          /\ pages[ops[p].url].batchId # ops[p].batchId)
         => LET u == ops[p].url
                old == pages[u].batchId
                new == ops[p].batchId
            IN  /\ DOMAIN pages' = DOMAIN pages
                /\ pages'[u].batchId = new
                /\ old \in DOMAIN batches
                      => /\ old \in DOMAIN batches'
                         /\ batches'[old].pageCount = batches[old].pageCount
                /\ new \in DOMAIN batches
                      => /\ new \in DOMAIN batches'
                         /\ batches'[new].pageCount = batches[new].pageCount]_vars

C32_Witness ==
    /\ ops[1].kind = "save" /\ ops[1].pc = "done" /\ ops[1].status = "success"
    /\ ops[1].home0 = 1 /\ ops[1].batchId = 2
    /\ pages[ops[1].url].batchId = 2
    /\ DOMAIN batches = {1, 2}
    /\ batches[1].pageCount = 1 /\ batches[2].pageCount = 0
    /\ CountOf(1) = 0 /\ CountOf(2) = 1

\* C33: the pages store never holds two records with the same url, and every
\* record carries one batch id.
C33_OnePageRecordPerUrl ==
    /\ \A k1, k2 \in DOMAIN pages : pages[k1].url = pages[k2].url => k1 = k2
    /\ \A k \in DOMAIN pages : pages[k].batchId \in 1..StrayId

C33_Witness ==
    /\ \A p \in Procs : DoneSave(p)
    /\ ops[1].url = ops[2].url
    /\ ops[1].batchId # ops[2].batchId
    /\ Cardinality(DOMAIN pages) = 1

\* C34: a savePage answered with an error when it arrives (a required field is
\* missing, or the page HTML was not retrieved) changes no batch record and no
\* page record.
C34_RejectedSaveChangesNothing ==
    [][\A p \in Procs :
         (/\ Free(p) /\ ops'[p] # ops[p]
          /\ ops'[p].kind = "save" /\ ops'[p].pc = "done" /\ ops'[p].status = "error")
         => (batches' = batches /\ pages' = pages)]_vars

C34_Witness ==
    /\ ops[1].kind = "save" /\ ops[1].pc = "done" /\ ops[1].status = "error"
    /\ ops[1].at = 0
    /\ \E b \in DOMAIN batches : batches[b].pageCount = 1 /\ CountOf(b) = 1

C39_CreateSuccessMeansStored ==
    [][\A p \in Procs :
         (/\ ops[p].kind = "create" /\ ops[p].pc = "insert"
          /\ ops'[p].pc = "done" /\ ops'[p].status = "success")
         => ops[p].batchId \in DOMAIN batches']_vars

\* A field the listing gives no value for: no descendant matches its selector,
\* or what is read there is whitespace only.
IsMissing(container, field) ==
    \/ field.selector \notin DOMAIN container.found
    \/ LET element == container.found[field.selector]
           raw == IF "attribute" \in DOMAIN field THEN element.attrs[field.attribute]
                  ELSE element.text
       IN  \A k \in DOMAIN raw : raw[k] = " "

\* C31: after a scrape there is one record per listing container, and in it
\* every configured field the container gives no value for has that field's
\* defaultValue; a missing rating is "N/A".
C31_MissingFieldTakesDefault ==
    content.scraped =>
        LET config == SERP_CONFIG[content.directory]
            listings == SelectSeq(content.document,
                                  LAMBDA c : c.matches = config.listingContainer)
        IN  /\ Len(content.records) = Len(listings)
            /\ \A i \in DOMAIN listings :
                  LET record == content.records[i]
                  IN  /\ \A f \in DOMAIN config.fields :
                            (/\ IsMissing(listings[i], config.fields[f])
                             /\ "defaultValue" \in DOMAIN config.fields[f])
                            => (f \in DOMAIN record
                                /\ record[f] = config.fields[f].defaultValue)
                      /\ IsMissing(listings[i], config.fields.rating)
                            => ("rating" \in DOMAIN record /\ record.rating = NA)

C31_Witness ==
    /\ content.scraped /\ content.directory = "Avvo"
    /\ Len(content.document) = 2 /\ Len(content.records) = 1
    /\ ".review-score" \notin DOMAIN content.document[2].found
    /\ content.document[2].matches = ".organic-card"
    /\ DOMAIN content.records[1] =
          {"directory", "businessName", "directoryProfileUrl", "rating", "reviewCount",
           "locationSnippet"}
    /\ content.records[1].rating = NA
    /\ content.records[1].businessName = <<"A", "n", "n">>
    /\ content.records[1].reviewCount = <<"1", "2">>

\* Commands the popup has sent and whose response has not reached its callback.
Awaited ==
    {p \in Procs : popup.awaiting[p] # "none"}

\* C35: the popup has at most one create, save, export or delete command
\* awaiting its response, and while one does, the controls that send such
\* commands are all disabled.
C35_OneCommandAtATime ==
    popup.script # "none" =>
        /\ Cardinality(Awaited) <= 1
        /\ Awaited # {} =>
              /\ popup.disabled.create /\ popup.disabled.save
              /\ popup.disabled.export /\ popup.disabled.delete

\* C36: with no GET_PAGE_COUNT response outstanding and nothing loading, Export
\* and Delete are disabled when no batch is selected or the selected batch has
\* no page.
C36_EmptySelectionDisablesButtons ==
    (/\ popup.script = "popup.js"
     /\ ~popup.isLoading
     /\ \A query \in BagToSet(popup.calls) : query.type # "GET_PAGE_COUNT")
    => ((popup.selectedBatchId = 0 \/ CountOf(popup.selectedBatchId) = 0)
        => (popup.disabled.export /\ popup.disabled.delete))

\* C37: after a successful create whose batch is in the reloaded list, once no
\* reload is outstanding, the dropdown shows the created batch.
C37_CreatedBatchSelected ==
    (/\ popup.script # "none"
     /\ popup.created # 0
     /\ \E i \in DOMAIN popup.currentBatches : popup.currentBatches[i].id = popup.created
     /\ \A query \in BagToSet(popup.calls) : query.callback # "loadBatches")
    => popup.value = popup.created
====
